---- MODULE Spec2Model ----
(***************************************************************************)
(* SAML authenticator plugin (ansible_base/authenticator_plugins/saml.py): *)
(* the configuration serializer (normalizer and validator), the plugin's   *)
(* write hook that fills CALLBACK_URL, and the metadata endpoint.          *)
(*                                                                         *)
(* A Python dict is a TLA+ function whose DOMAIN is the set of its keys.   *)
(* A configuration dict is the record [s, e]: s holds the scalar settings, *)
(* e holds the key ENABLED_IDPS (when present) whose value is the nested   *)
(* dict {label: idp_data}.  Every scalar value is a string; Python's None  *)
(* is the reserved string NONE.                                            *)
(***************************************************************************)
EXTENDS Integers, Sequences, FiniteSets, TLC

VARIABLES
    store,          \* Authenticator table: pk -> row
    txn,            \* the HTTP exchange being served: a request in flight or its response
    nx,             \* normalizer run: the flat configuration submitted
    configuration,  \* normalizer run: the configuration dict object held in memory
    nres,           \* normalizer run: the value to_representation returned
    nphase          \* normalizer run: "off", "input", "internal", "external"

vars == <<store, txn, nx, configuration, nres, nphase>>

(* ------------------------------ bounds -------------------------------- *)
NumPairs == 2      \* SP keypairs: certificate i matches private key i only
NumHosts == 2      \* hosts a request can arrive through

(* --------------------------- Python values ---------------------------- *)
NONE == "<None>"
ABSENT == "<absent>"     \* input enumeration only: the key is not in the dict
EmptyDict == << >>

Truthy(v) == v # NONE /\ v # ""

Get(d, k, default) == IF k \in DOMAIN d THEN d[k] ELSE default

Put(d, k, v) == [x \in DOMAIN d \cup {k} |-> IF x = k THEN v ELSE d[x]]

Del(d, k) == [x \in DOMAIN d \ {k} |-> d[x]]

EmptyConfig == [s |-> EmptyDict, e |-> EmptyDict]

(* ------------------------ module-level constants ---------------------- *)
idp_string == "IdP"

ENCRYPTED_STRING == "$encrypted$"

settings_to_enabled_idps_fields ==
    << <<"IDP_URL", "url">>,
       <<"IDP_X509_CERT", "x509cert">>,
       <<"IDP_ENTITY_ID", "entity_id">>,
       <<"IDP_ATTR_EMAIL", "attr_email">>,
       <<"IDP_GROUPS", "attr_groups">>,
       <<"IDP_ATTR_USERNAME", "attr_username">>,
       <<"IDP_ATTR_LAST_NAME", "attr_last_name">>,
       <<"IDP_ATTR_FIRST_NAME", "attr_first_name">>,
       <<"IDP_ATTR_USER_PERMANENT_ID", "attr_user_permanent_id">> >>

FlatKeys == {settings_to_enabled_idps_fields[i][1] : i \in DOMAIN settings_to_enabled_idps_fields}

SAML_TYPE == "ansible_base.authenticator_plugins.saml"
LOCAL_TYPE == "ansible_base.authenticator_plugins.local"

(* ----------------------------- collaborators -------------------------- *)
Cert(i) == "cert" \o ToString(i)
Key(i) == "key" \o ToString(i)
Certs == {Cert(i) : i \in 1..NumPairs}
Keys == {Key(i) : i \in 1..NumPairs}
Hosts == {"host" \o ToString(i) : i \in 1..NumHosts}
Names == {"corp-idp"}

\* The pair loads and the key corresponds to the certificate.
Matches(cert, key) == \E i \in 1..NumPairs : cert = Cert(i) /\ key = Key(i)

\* validate_cert_with_key raises ValidationError: TRUE when it raises.
validate_cert_with_key(public_cert, private_key) == ~Matches(public_cert, private_key)

\* BaseAuthenticatorConfiguration.to_internal_value: the validated fields.
super_to_internal_value(data) == data

generate_authenticator_slug(type, name) == "saml__" \o name

reverse_complete(host, slug) == "https://" \o host \o "/complete/" \o slug \o "/"

get_authenticator_plugin(type) == IF type = SAML_TYPE THEN "SAML" ELSE "local"

(* ------------------------- SAMLConfiguration -------------------------- *)
\* cert_info with the ENCRYPTED_STRING test of line 140 left out
cert_info_sentinel_overrides(instance, attrs) ==
    LET conf == IF instance.exists THEN instance.configuration.s ELSE EmptyDict
        base == [SP_PRIVATE_KEY |-> Get(conf, "SP_PRIVATE_KEY", NONE),
                 SP_PUBLIC_CERT |-> Get(conf, "SP_PUBLIC_CERT", Get(attrs.s, "SP_PUBLIC_CERT", NONE))]
        private_key == Get(attrs.s, "SP_PRIVATE_KEY", NONE)
    IN  IF Truthy(private_key)
        THEN [base EXCEPT !.SP_PRIVATE_KEY = private_key]
        ELSE base

\* lines 133-142: the pair handed to validate_cert_with_key
cert_info(instance, attrs) ==
    LET conf == IF instance.exists THEN instance.configuration.s ELSE EmptyDict
        base == [SP_PRIVATE_KEY |-> Get(conf, "SP_PRIVATE_KEY", NONE),
                 SP_PUBLIC_CERT |-> Get(conf, "SP_PUBLIC_CERT", Get(attrs.s, "SP_PUBLIC_CERT", NONE))]
        private_key == Get(attrs.s, "SP_PRIVATE_KEY", NONE)
    IN  IF Truthy(private_key) /\ private_key # ENCRYPTED_STRING
        THEN [base EXCEPT !.SP_PRIVATE_KEY = private_key]
        ELSE base

\* lines 158-159: the single IdP entry of the candidate
idp_data_of(attrs) == Get(Get(attrs.e, "ENABLED_IDPS", EmptyDict), idp_string, EmptyDict)

identity_missing(attrs) ==
    LET idp_data == idp_data_of(attrs)
    IN  /\ ~Truthy(Get(idp_data, "attr_user_permanent_id", NONE))
        /\ ~Truthy(Get(idp_data, "attr_username", NONE))

\* validate raising as soon as the cert/key check fails
SAMLConfiguration_validate_short_circuit(instance, attrs) ==
    LET ci == cert_info(instance, attrs)
    IN  IF validate_cert_with_key(ci.SP_PUBLIC_CERT, ci.SP_PRIVATE_KEY)
        THEN {"SP_PRIVATE_KEY"}
        ELSE IF identity_missing(attrs) THEN {"IDP_ATTR_USERNAME"} ELSE {}

\* SAMLConfiguration.validate: the keys of the errors dict; it raises iff non-empty.
SAMLConfiguration_validate(instance, attrs) ==
    LET ci == cert_info(instance, attrs)
        e1 == IF validate_cert_with_key(ci.SP_PUBLIC_CERT, ci.SP_PRIVATE_KEY)
              THEN {"SP_PRIVATE_KEY"} ELSE {}
        e2 == IF identity_missing(attrs) THEN {"IDP_ATTR_USERNAME"} ELSE {}
    IN  e1 \cup e2

RECURSIVE move_fields(_, _, _)
\* the loop of to_internal_value from item i on
move_fields(i, resp, idp_data) ==
    IF i > Len(settings_to_enabled_idps_fields)
    THEN [resp |-> resp, idp_data |-> idp_data]
    ELSE LET field == settings_to_enabled_idps_fields[i][1]
             idp_field == settings_to_enabled_idps_fields[i][2]
         IN  IF field \in DOMAIN resp
             THEN move_fields(i + 1, Del(resp, field), Put(idp_data, idp_field, resp[field]))
             ELSE move_fields(i + 1, resp, idp_data)

to_internal_value(data) ==
    LET resp == super_to_internal_value(data)
        r == move_fields(1, resp.s, EmptyDict)
    IN  [s |-> r.resp, e |-> Put(resp.e, "ENABLED_IDPS", (idp_string :> r.idp_data))]

RECURSIVE surface_fields(_, _)
\* the loop of to_representation from item i on, writing into the dict it was given
surface_fields(i, conf) ==
    IF i > Len(settings_to_enabled_idps_fields)
    THEN conf
    ELSE LET config_setting_name == settings_to_enabled_idps_fields[i][1]
             enabled_idp_field_name == settings_to_enabled_idps_fields[i][2]
             idp == conf.e["ENABLED_IDPS"][idp_string]
         IN  IF enabled_idp_field_name \in DOMAIN idp
             THEN surface_fields(i + 1, [conf EXCEPT !.s = Put(@, config_setting_name, idp[enabled_idp_field_name])])
             ELSE surface_fields(i + 1, conf)

\* to_representation without the del of line 184
to_representation_keeps_nested(conf) ==
    IF "ENABLED_IDPS" \in DOMAIN conf.e
    THEN surface_fields(1, conf)
    ELSE conf

\* The dict after the call; the call returns that same dict object.
to_representation(conf) ==
    IF "ENABLED_IDPS" \in DOMAIN conf.e
    THEN LET c == surface_fields(1, conf) IN [c EXCEPT !.e = Del(@, "ENABLED_IDPS")]
    ELSE conf

(* ------------------------- AuthenticatorPlugin ------------------------ *)
\* AuthenticatorPlugin.validate: data as returned (its configuration is written in place)
AuthenticatorPlugin_validate(instance, host, data) ==
    IF instance.exists /\ ~data.has_configuration
    THEN data
    ELSE IF ~Truthy(Get(data.configuration.s, "CALLBACK_URL", NONE))
         THEN LET slug == IF ~instance.exists
                          THEN generate_authenticator_slug(data.type, data.name)
                          ELSE instance.slug
              IN  [data EXCEPT !.configuration.s =
                       Put(@, "CALLBACK_URL", reverse_complete(host, slug))]
         ELSE data

(* ------------------------- serializer pipeline ------------------------ *)
NoInstance == [exists |-> FALSE, type |-> "", slug |-> "", configuration |-> EmptyConfig]

\* Authenticator row written by the serializer's create()/update(): the validated
\* configuration replaces the stored one; a certificate the write did not supply and
\* a private key it left out, left empty or sent as ENCRYPTED_STRING keep the stored value.
save(instance, data) ==
    IF instance.exists /\ ~data.has_configuration
    THEN instance
    ELSE LET new == data.configuration
             old == instance.configuration.s
             key == Get(new.s, "SP_PRIVATE_KEY", NONE)
             s1 == IF (~Truthy(key) \/ key = ENCRYPTED_STRING) /\ "SP_PRIVATE_KEY" \in DOMAIN old
                   THEN Put(new.s, "SP_PRIVATE_KEY", old["SP_PRIVATE_KEY"])
                   ELSE new.s
             s2 == IF "SP_PUBLIC_CERT" \notin DOMAIN s1 /\ "SP_PUBLIC_CERT" \in DOMAIN old
                   THEN Put(s1, "SP_PUBLIC_CERT", old["SP_PUBLIC_CERT"])
                   ELSE s1
         IN  [exists |-> TRUE,
              type |-> data.type,
              slug |-> IF instance.exists THEN instance.slug
                       ELSE generate_authenticator_slug(data.type, data.name),
              configuration |-> [new EXCEPT !.s = s2]]

\* One write through the authenticator serializer: normalize, validate the
\* configuration, run the plugin's validate, save.  A rejected write saves nothing.
serializer_write(instance, host, data) ==
    IF instance.exists /\ ~data.has_configuration
    THEN [accepted |-> TRUE, validated |-> FALSE,
          cert_info |-> [SP_PRIVATE_KEY |-> NONE, SP_PUBLIC_CERT |-> NONE],
          errors |-> {}, row |-> save(instance, AuthenticatorPlugin_validate(instance, host, data))]
    ELSE LET attrs == to_internal_value(data.configuration)
             errors == SAMLConfiguration_validate(instance, attrs)
             data2 == AuthenticatorPlugin_validate(instance, host, [data EXCEPT !.configuration = attrs])
         IN  [accepted |-> errors = {}, validated |-> TRUE,
              cert_info |-> cert_info(instance, attrs),
              errors |-> errors,
              row |-> IF errors = {} THEN save(instance, data2) ELSE instance]

(* ----------------------------- metadata view -------------------------- *)
NoResponse == [raised |-> "", status |-> 0, content |-> "", content_type |-> ""]

HttpResponseNotFound == [raised |-> "", status |-> 404, content |-> "", content_type |-> "text/html"]

HttpResponse(content, content_type) ==
    [raised |-> "", status |-> 200, content |-> content, content_type |-> content_type]

RECURSIVE Join(_)
Join(seq) == IF seq = << >> THEN "" ELSE Head(seq) \o Join(Tail(seq))

metadata_xml(slug) == "<EntityDescriptor " \o slug \o "/>"

\* What saml_backend.generate_metadata_xml() can do: return (metadata, errors)
\* or raise OneLogin_Saml2_Error.
EngineOutcomes(slug) ==
    {[raises |-> FALSE, metadata |-> metadata_xml(slug), errors |-> errs, message |-> ""] :
        errs \in {<< >>, <<"invalid_xml">>, <<"sp_cert_not_found", "invalid_xml">>}}
    \cup {[raises |-> TRUE, metadata |-> "", errors |-> << >>, message |-> "Invalid dict settings"]}

\* get with the plugin type test of lines 223-225 left out
SAMLMetadataView_get_any_type(authenticator, outcome) ==
    IF ~authenticator.exists
    THEN [response |-> [NoResponse EXCEPT !.raised = "DoesNotExist"], calls |-> << >>]
    ELSE LET calls == <<"get_backend", "generate_metadata_xml">>
             errors_truthy == outcome.raises \/ outcome.errors # << >>
             errors_text == IF outcome.raises THEN outcome.message ELSE Join(outcome.errors)
         IN  IF ~errors_truthy
             THEN [response |-> HttpResponse(outcome.metadata, "text/xml"), calls |-> calls]
             ELSE [response |-> HttpResponse(errors_text, "text/plain"), calls |-> calls]

\* get without the except clause of lines 232-233
SAMLMetadataView_get_uncaught(authenticator, outcome) ==
    IF ~authenticator.exists
    THEN [response |-> [NoResponse EXCEPT !.raised = "DoesNotExist"], calls |-> << >>]
    ELSE IF get_authenticator_plugin(authenticator.type) # "SAML"
    THEN [response |-> HttpResponseNotFound, calls |-> << >>]
    ELSE LET calls == <<"get_backend", "generate_metadata_xml">>
         IN  IF outcome.raises
             THEN [response |-> [NoResponse EXCEPT !.raised = "OneLogin_Saml2_Error"], calls |-> calls]
             ELSE IF outcome.errors = << >>
             THEN [response |-> HttpResponse(outcome.metadata, "text/xml"), calls |-> calls]
             ELSE [response |-> HttpResponse(Join(outcome.errors), "text/plain"), calls |-> calls]

\* SAMLMetadataView.get: the response and the protocol-engine operations performed
SAMLMetadataView_get(authenticator, outcome) ==
    IF ~authenticator.exists
    THEN [response |-> [NoResponse EXCEPT !.raised = "DoesNotExist"], calls |-> << >>]
    ELSE IF get_authenticator_plugin(authenticator.type) # "SAML"
    THEN [response |-> HttpResponseNotFound, calls |-> << >>]
    ELSE LET calls == <<"get_backend", "generate_metadata_xml">>
             \* errors is the returned list, or the exception (which is truthy)
             errors_truthy == outcome.raises \/ outcome.errors # << >>
             errors_text == IF outcome.raises THEN outcome.message ELSE Join(outcome.errors)
         IN  IF ~errors_truthy
             THEN [response |-> HttpResponse(outcome.metadata, "text/xml"), calls |-> calls]
             ELSE [response |-> HttpResponse(errors_text, "text/plain"), calls |-> calls]

(* -------------------------------- inputs ------------------------------ *)
PKs == {1, 2, 3}
SamlPk == 1
LocalPk == 2

MkDict(pairs) ==
    [k \in {p[1] : p \in {q \in pairs : q[2] # ABSENT}} |-> (CHOOSE p \in pairs : p[1] = k)[2]]

CustomCallback == "https://sp.example/acs/"

CertInputs == {ABSENT} \cup Certs
KeyInputs == {ABSENT, "", ENCRYPTED_STRING} \cup Keys
UsernameInputs == {ABSENT, NONE, "uid"}
PermanentIdInputs == {ABSENT, "", "eppn"}
CallbackInputs == {ABSENT, CustomCallback}

FlatConfig(cert, key, username, permanent_id, callback) ==
    [s |-> MkDict({<<"SP_ENTITY_ID", "aap_gateway">>,
                   <<"SP_PUBLIC_CERT", cert>>,
                   <<"SP_PRIVATE_KEY", key>>,
                   <<"CALLBACK_URL", callback>>,
                   <<"IDP_URL", "https://idp.example/sso">>,
                   <<"IDP_X509_CERT", "idpcert">>,
                   <<"IDP_ENTITY_ID", "idp-entity">>,
                   <<"IDP_ATTR_EMAIL", "mail">>,
                   <<"IDP_GROUPS", "groups">>,
                   <<"IDP_ATTR_USERNAME", username>>,
                   <<"IDP_ATTR_LAST_NAME", "sn">>,
                   <<"IDP_ATTR_FIRST_NAME", "givenName">>,
                   <<"IDP_ATTR_USER_PERMANENT_ID", permanent_id>>}),
     e |-> EmptyDict]

WriteConfigs ==
    {FlatConfig(c, k, u, p, cb) : c \in CertInputs, k \in KeyInputs, u \in UsernameInputs,
                                  p \in PermanentIdInputs, cb \in CallbackInputs}

NoOutcome == [raises |-> FALSE, metadata |-> "", errors |-> << >>, message |-> ""]

NoData == [type |-> "", name |-> "", has_configuration |-> FALSE, configuration |-> EmptyConfig]

Idle ==
    [phase |-> "idle", op |-> "none", pk |-> 0, data |-> NoData, before |-> NoInstance,
     accepted |-> FALSE, validated |-> FALSE,
     cert_info |-> [SP_PRIVATE_KEY |-> NONE, SP_PUBLIC_CERT |-> NONE], errors |-> {},
     response |-> NoResponse, calls |-> << >>, outcome |-> NoOutcome]

LocalAuthenticator ==
    [exists |-> TRUE, type |-> LOCAL_TYPE, slug |-> "local__local", configuration |-> EmptyConfig]

NormIdle ==
    /\ nx = EmptyConfig
    /\ configuration = EmptyConfig
    /\ nres = EmptyConfig
    /\ nphase = "off"

Init ==
    /\ store = [pk \in PKs |-> IF pk = LocalPk THEN LocalAuthenticator ELSE NoInstance]
    /\ txn = Idle
    /\ NormIdle

(* -------------------------------- actions ----------------------------- *)
\* POST authenticators/ with a SAML configuration
SubmitCreate(name, x) ==
    /\ txn.phase = "idle"
    /\ ~store[SamlPk].exists
    /\ txn' = [Idle EXCEPT !.phase = "request", !.op = "create", !.pk = SamlPk,
                           !.data = [type |-> SAML_TYPE, name |-> name,
                                     has_configuration |-> TRUE, configuration |-> x]]
    /\ UNCHANGED <<store, nx, configuration, nres, nphase>>

\* PUT/PATCH authenticators/<pk>/, with or without a configuration
SubmitUpdate(name, has_configuration, x) ==
    /\ txn.phase = "idle"
    /\ store[SamlPk].exists
    /\ txn' = [Idle EXCEPT !.phase = "request", !.op = "update", !.pk = SamlPk,
                           !.data = [type |-> SAML_TYPE, name |-> name,
                                     has_configuration |-> has_configuration,
                                     configuration |-> x]]
    /\ UNCHANGED <<store, nx, configuration, nres, nphase>>

\* The serializer handles the write arriving through `host`.
HandleWrite(host) ==
    /\ txn.phase = "request"
    /\ txn.op \in {"create", "update"}
    /\ \E w \in {serializer_write(store[txn.pk], host, txn.data)} :
          /\ store' = [store EXCEPT ![txn.pk] = w.row]
          /\ txn' = [txn EXCEPT !.phase = "response", !.before = store[txn.pk],
                                !.accepted = w.accepted, !.validated = w.validated,
                                !.cert_info = w.cert_info,
                                !.errors = w.errors]
    /\ UNCHANGED <<nx, configuration, nres, nphase>>

\* GET authenticators/<pk>/metadata/
SubmitMetadata(pk) ==
    /\ txn.phase = "idle"
    /\ txn' = [Idle EXCEPT !.phase = "request", !.op = "metadata", !.pk = pk]
    /\ UNCHANGED <<store, nx, configuration, nres, nphase>>

HandleMetadata ==
    /\ txn.phase = "request"
    /\ txn.op = "metadata"
    /\ \E outcome \in EngineOutcomes(store[txn.pk].slug) :
          LET r == SAMLMetadataView_get(store[txn.pk], outcome)
          IN  txn' = [txn EXCEPT !.phase = "response", !.before = store[txn.pk],
                                 !.response = r.response, !.calls = r.calls,
                                 !.outcome = IF r.calls # << >> THEN outcome ELSE NoOutcome]
    /\ UNCHANGED <<store, nx, configuration, nres, nphase>>

\* The in-memory configuration object is built from the submitted flat settings.
NormToInternal ==
    /\ nphase = "input"
    /\ configuration' = to_internal_value(nx)
    /\ nphase' = "internal"
    /\ UNCHANGED <<store, txn, nx, nres>>

\* The object is read through to_representation, which returns the object it was given.
NormToRepresentation ==
    /\ nphase \in {"internal", "external"}
    /\ \E r \in {to_representation(configuration)} :
          /\ configuration' = r
          /\ nres' = r
    /\ nphase' = "external"
    /\ UNCHANGED <<store, txn, nx>>

\* The response is delivered; the next request can be served.
Deliver ==
    /\ txn.phase = "response"
    /\ txn' = Idle
    /\ UNCHANGED <<store, nx, configuration, nres, nphase>>

Next ==
    \/ \E name \in Names, x \in WriteConfigs : SubmitCreate(name, x)
    \/ \E name \in Names, x \in WriteConfigs : SubmitUpdate(name, TRUE, x)
    \/ \E name \in Names : SubmitUpdate(name, FALSE, EmptyConfig)
    \/ \E host \in Hosts : HandleWrite(host)
    \/ \E pk \in PKs : SubmitMetadata(pk)
    \/ HandleMetadata
    \/ Deliver

Spec == Init /\ [][Next]_vars

(* ----------------------- normalizer specification --------------------- *)
NumValues == 2     \* distinct values a required flat setting can take

NormValues == {"v" \o ToString(i) : i \in 1..NumValues}
OptionalValues == {ABSENT, NONE, "v1"}

NormInputs ==
    {[s |-> MkDict({<<"SP_ENTITY_ID", "aap_gateway">>,
                    <<"IDP_URL", url>>,
                    <<"IDP_X509_CERT", crt>>,
                    <<"IDP_ENTITY_ID", ent>>,
                    <<"IDP_ATTR_EMAIL", em>>,
                    <<"IDP_GROUPS", gr>>,
                    <<"IDP_ATTR_USERNAME", un>>,
                    <<"IDP_ATTR_LAST_NAME", ln>>,
                    <<"IDP_ATTR_FIRST_NAME", fn>>,
                    <<"IDP_ATTR_USER_PERMANENT_ID", pid>>}),
      e |-> EmptyDict] :
        url \in NormValues, crt \in NormValues, ent \in NormValues, em \in NormValues,
        ln \in NormValues, fn \in NormValues,
        gr \in OptionalValues, un \in OptionalValues, pid \in OptionalValues}

InitNorm ==
    /\ store = [pk \in PKs |-> IF pk = LocalPk THEN LocalAuthenticator ELSE NoInstance]
    /\ txn = Idle
    /\ nx \in NormInputs
    /\ configuration = EmptyConfig
    /\ nres = EmptyConfig
    /\ nphase = "input"

NextNorm ==
    \/ NormToInternal
    \/ NormToRepresentation

SpecNorm == InitNorm /\ [][NextNorm]_vars

(* ------------------------------- claims ------------------------------- *)
\* A write whose configuration went through SAMLConfiguration.validate has been handled.
ValidatedWrite ==
    /\ txn.phase = "response"
    /\ txn.op \in {"create", "update"}
    /\ txn.validated

Submitted == txn.data.configuration.s
Stored(pk) == store[pk].configuration.s
OldStored == txn.before.configuration.s

\* The write leaves the private key as it is: omitted, empty or the sentinel.
KeyNotSupplied ==
    \/ "SP_PRIVATE_KEY" \notin DOMAIN Submitted
    \/ Submitted["SP_PRIVATE_KEY"] \in {"", NONE, ENCRYPTED_STRING}

\* The certificate and key the written configuration ends up with.
EffectiveCert ==
    IF "SP_PUBLIC_CERT" \in DOMAIN Submitted
    THEN Submitted["SP_PUBLIC_CERT"]
    ELSE Get(OldStored, "SP_PUBLIC_CERT", NONE)

EffectiveKey ==
    IF KeyNotSupplied THEN Get(OldStored, "SP_PRIVATE_KEY", NONE) ELSE Submitted["SP_PRIVATE_KEY"]

\* Neither identity attribute is set in what was submitted.
NoIdentitySubmitted ==
    /\ ~Truthy(Get(Submitted, "IDP_ATTR_USERNAME", NONE))
    /\ ~Truthy(Get(Submitted, "IDP_ATTR_USER_PERMANENT_ID", NONE))

\* C1: every validated write is checked on its effective certificate and key: a
\* matching pair records no SP_PRIVATE_KEY error, a mismatched pair is rejected
\* with an error keyed SP_PRIVATE_KEY.
C1_EffectivePairIsChecked ==
    ValidatedWrite =>
        IF Matches(EffectiveCert, EffectiveKey)
        THEN "SP_PRIVATE_KEY" \notin txn.errors
        ELSE "SP_PRIVATE_KEY" \in txn.errors /\ ~txn.accepted

\* C2: the stored SAML configuration is always valid: its certificate and key
\* match and its IdP entry sets attr_username or attr_user_permanent_id.
C2_StoredConfigurationValid ==
    store[SamlPk].exists =>
        /\ Matches(Get(Stored(SamlPk), "SP_PUBLIC_CERT", NONE),
                   Get(Stored(SamlPk), "SP_PRIVATE_KEY", NONE))
        /\ "ENABLED_IDPS" \in DOMAIN store[SamlPk].configuration.e
        /\ idp_string \in DOMAIN store[SamlPk].configuration.e["ENABLED_IDPS"]
        /\ LET idp == store[SamlPk].configuration.e["ENABLED_IDPS"][idp_string]
           IN  \/ Truthy(Get(idp, "attr_username", NONE))
               \/ Truthy(Get(idp, "attr_user_permanent_id", NONE))

\* C3: on an update of an instance that holds a private key, a write that omits
\* the key, leaves it empty or sends ENCRYPTED_STRING is checked with the stored
\* key (never None, never the sentinel) and is rejected on SP_PRIVATE_KEY only if
\* that key does not match; any other key supplied is the one checked.
C3_StoredKeySubstituted ==
    (/\ ValidatedWrite
     /\ txn.op = "update"
     /\ Truthy(Get(OldStored, "SP_PRIVATE_KEY", NONE)))
    => IF KeyNotSupplied
       THEN /\ txn.cert_info.SP_PRIVATE_KEY = OldStored["SP_PRIVATE_KEY"]
            /\ txn.cert_info.SP_PRIVATE_KEY \notin {NONE, ENCRYPTED_STRING}
            /\ ("SP_PRIVATE_KEY" \in txn.errors
                    <=> ~Matches(txn.cert_info.SP_PUBLIC_CERT, OldStored["SP_PRIVATE_KEY"]))
       ELSE txn.cert_info.SP_PRIVATE_KEY = Submitted["SP_PRIVATE_KEY"]

C3_Witness ==
    /\ ValidatedWrite
    /\ txn.op = "update"
    /\ "SP_PRIVATE_KEY" \in DOMAIN Submitted
    /\ Submitted["SP_PRIVATE_KEY"] = ENCRYPTED_STRING
    /\ Truthy(Get(OldStored, "SP_PRIVATE_KEY", NONE))
    /\ txn.accepted

\* C4: a candidate whose certificate and key form a matching pair fails with the
\* single error IDP_ATTR_USERNAME when neither identity attribute is set, and
\* succeeds with no identity error when either is set.
C4_IdentityAttributeDecides ==
    (ValidatedWrite /\ Matches(EffectiveCert, EffectiveKey)) =>
        IF NoIdentitySubmitted
        THEN txn.errors = {"IDP_ATTR_USERNAME"} /\ ~txn.accepted
        ELSE "IDP_ATTR_USERNAME" \notin txn.errors /\ txn.accepted

\* C6: an update that does not explicitly supply CALLBACK_URL leaves the stored
\* CALLBACK_URL equal to its previous value.
ExplicitCallback ==
    /\ txn.data.has_configuration
    /\ Truthy(Get(Submitted, "CALLBACK_URL", NONE))

C6_CallbackUrlPersists ==
    [][(/\ txn.phase = "request"
        /\ txn.op = "update"
        /\ txn'.phase = "response"
        /\ ~ExplicitCallback)
       => Get(Stored(SamlPk), "CALLBACK_URL", NONE)' = Get(Stored(SamlPk), "CALLBACK_URL", NONE)]_vars

MetadataServed ==
    /\ txn.phase = "response"
    /\ txn.op = "metadata"
    /\ txn.before.exists

\* C7: a metadata GET for a stored authenticator whose plugin type is not SAML
\* answers "not found" and performs no protocol-engine operation.
C7_NonSamlNotFound ==
    (MetadataServed /\ txn.before.type # SAML_TYPE) =>
        /\ txn.response.raised = ""
        /\ txn.response.status = 404
        /\ txn.calls = << >>

C7_Witness ==
    /\ MetadataServed
    /\ txn.pk = LocalPk
    /\ txn.before.type = LOCAL_TYPE
    /\ txn.response.status = 404

\* C8: a metadata GET for a stored SAML authenticator never raises and answers
\* with a non-error status: the metadata document as text/xml when generation
\* reports no errors, otherwise the error text as text/plain and never the document.
C8_MetadataOrErrorText ==
    (MetadataServed /\ txn.before.type = SAML_TYPE) =>
        /\ txn.response.raised = ""
        /\ txn.response.status = 200
        /\ IF ~txn.outcome.raises /\ txn.outcome.errors = << >>
           THEN /\ txn.response.content = metadata_xml(txn.before.slug)
                /\ txn.response.content_type = "text/xml"
           ELSE /\ txn.response.content_type = "text/plain"
                /\ txn.response.content # metadata_xml(txn.before.slug)
                /\ txn.response.content =
                       IF txn.outcome.raises THEN txn.outcome.message
                       ELSE Join(txn.outcome.errors)

C8_Witness ==
    /\ MetadataServed
    /\ txn.before.type = SAML_TYPE
    /\ txn.outcome.raises
    /\ txn.response.content_type = "text/plain"

\* C9: validate evaluates both checks: the error keys are exactly the failed
\* checks (SP_PRIVATE_KEY when the checked pair fails, IDP_ATTR_USERNAME when
\* neither identity attribute is set) and the write is rejected iff there is one.
C9_AllErrorsCollected ==
    ValidatedWrite =>
        /\ txn.errors =
               (IF Matches(txn.cert_info.SP_PUBLIC_CERT, txn.cert_info.SP_PRIVATE_KEY)
                THEN {} ELSE {"SP_PRIVATE_KEY"})
               \cup (IF NoIdentitySubmitted THEN {"IDP_ATTR_USERNAME"} ELSE {})
        /\ txn.accepted <=> txn.errors = {}

C9_Witness ==
    /\ ValidatedWrite
    /\ txn.errors = {"SP_PRIVATE_KEY", "IDP_ATTR_USERNAME"}
    /\ ~txn.accepted

ExpectedInternalName ==
    [k \in FlatKeys |->
        CASE k = "IDP_URL" -> "url"
          [] k = "IDP_X509_CERT" -> "x509cert"
          [] k = "IDP_ENTITY_ID" -> "entity_id"
          [] k = "IDP_ATTR_EMAIL" -> "attr_email"
          [] k = "IDP_GROUPS" -> "attr_groups"
          [] k = "IDP_ATTR_USERNAME" -> "attr_username"
          [] k = "IDP_ATTR_LAST_NAME" -> "attr_last_name"
          [] k = "IDP_ATTR_FIRST_NAME" -> "attr_first_name"
          [] k = "IDP_ATTR_USER_PERMANENT_ID" -> "attr_user_permanent_id"]

\* C5: for a flat configuration holding all nine mapped keys, to_internal_value
\* leaves none of them at top level and holds them in exactly one ENABLED_IDPS
\* entry labelled IdP under their internal names; to_representation of that
\* result carries each key's submitted value and no ENABLED_IDPS key.
C5_RoundTrip ==
    (FlatKeys \subseteq DOMAIN nx.s) =>
        /\ nphase = "internal" =>
              /\ DOMAIN configuration.s \cap FlatKeys = {}
              /\ DOMAIN configuration.e = {"ENABLED_IDPS"}
              /\ DOMAIN configuration.e["ENABLED_IDPS"] = {"IdP"}
              /\ DOMAIN configuration.e["ENABLED_IDPS"]["IdP"] = {ExpectedInternalName[k] : k \in FlatKeys}
              /\ \A k \in FlatKeys :
                    configuration.e["ENABLED_IDPS"]["IdP"][ExpectedInternalName[k]] = nx.s[k]
        /\ nphase = "external" =>
              /\ \A k \in FlatKeys : k \in DOMAIN nres.s /\ nres.s[k] = nx.s[k]
              /\ "ENABLED_IDPS" \notin DOMAIN nres.e

C5_Witness ==
    /\ nphase = "external"
    /\ FlatKeys \subseteq DOMAIN nx.s
    /\ nx.s["IDP_GROUPS"] = NONE
    /\ nres.s["IDP_ATTR_USERNAME"] = "v1"

\* C10: reading a configuration through to_representation leaves the object it
\* was given unchanged.
C10_ReadLeavesObjectUnchanged ==
    [][(nphase = "internal" /\ nphase' = "external") => configuration' = configuration]_vars

====
